---- MODULE Spec2Model ----
(***************************************************************************)
(* Model of the Swan VS Code extension                                     *)
(* (packages/vscode-plugin/src/extension.ts): the activate / deactivate    *)
(* lifecycle, the three command handlers, the configuration-change         *)
(* listener and the welcome prompt, together with the part of the editor   *)
(* host they act on (command registry, status bar, disposal list, global   *)
(* memento, pending prompts, terminals).                                   *)
(*                                                                         *)
(* A JavaScript string is a sequence of tokens, so that template-literal   *)
(* interpolation is sequence concatenation and "contains" is a sub-        *)
(* sequence search.  A value that may be undefined is a record             *)
(* [defined, str].                                                         *)
(***************************************************************************)
EXTENDS Naturals, Sequences, FiniteSets

VARIABLES
  active,          \* lifecycle state: TRUE = Active, FALSE = Inactive
  globalState,     \* context.globalState: a function key -> value
  commands,        \* host command registry: command id -> live registrations
  statusBarItems,  \* live status-bar items created by the extension
  subscriptions,   \* context.subscriptions of the current activation
  configListeners, \* live onDidChangeConfiguration listeners
  logLevel,        \* current value of the setting swan.logLevel
  welcomePending,  \* welcome notifications whose .then callback has not run
  inputBoxes,      \* createProject invocations suspended in showInputBox
  terminals,       \* terminals created so far
  calls,           \* host capability calls made by the last step, in order
  op,              \* the last operation: [name, arg, via]
  activations,     \* number of activate() calls so far
  activationFailed,\* an activate() call has thrown
  welcomeShown     \* number of welcome notifications shown so far

vars == <<active, globalState, commands, statusBarItems, subscriptions,
          configListeners, logLevel, welcomePending, inputBoxes, terminals,
          calls, op, activations, activationFailed, welcomeShown>>

----------------------------------------------------------------------------
(* Bounds *)

MaxActivations == 3
MaxPending == 2
MaxTerminals == 2
MaxNameLen == 1

----------------------------------------------------------------------------
(* Values and strings *)

undefined == [defined |-> FALSE, str |-> <<>>]
Str(s) == [defined |-> TRUE, str |-> s]

\* JavaScript truthiness of a string-or-undefined value: if (projectName)
Truthy(v) == v.defined /\ v.str # <<>>

\* String.prototype.includes on token sequences
Contains(text, sub) ==
  \E i \in 1..(Len(text) + 1) :
    /\ i + Len(sub) - 1 <= Len(text)
    /\ SubSeq(text, i, i + Len(sub) - 1) = sub

NameChars == {"a"}
Demo == <<"d", "e", "m", "o">>

RECURSIVE SeqsUpTo(_, _)
SeqsUpTo(S, n) ==
  IF n = 0 THEN {<<>>}
  ELSE LET shorter == SeqsUpTo(S, n - 1)
       IN shorter \cup {Append(s, c) : s \in shorter, c \in S}

\* what showInputBox can resolve with
InputValues == {undefined} \cup {Str(s) : s \in SeqsUpTo(NameChars, MaxNameLen) \cup {Demo}}

HelloWorldId == "swan.helloWorld"
OpenDocsId == "swan.openDocs"
CreateProjectId == "swan.createProject"
CommandIds == {HelloWorldId, OpenDocsId, CreateProjectId}

WelcomeKey == "swan.hasShownWelcome"

Greeting == <<"Hello World from Swan!">>
DocsUrl == <<"https", "://", "your-swan-docs-url.com">>
WelcomeMessage == <<"Welcome to Swan VS Code Extension!">>
OpenDocsChoice == "Open Docs"
CreateProjectChoice == "Create Project"
WelcomeChoices == <<OpenDocsChoice, CreateProjectChoice>>
TerminalName == <<"Swan Project Setup">>
ScaffoldPrefix == <<"pnpm create swan-app ">>
ConfirmPrefix == <<"Creating Swan project: ">>
LogLevelPrefix == <<"Swan log level changed to: ">>
ActivatedLine == <<"Swan VS Code Extension is now active!">>
DeactivatedLine == <<"Swan VS Code Extension is now deactivated">>
InputPrompt == <<"Enter project name">>
InputPlaceHolder == <<"my-swan-project">>
StatusBarText == <<"$(rocket) Swan">>
StatusBarTooltip == <<"Swan Development Tools">>
StatusBarPriority == 100
SwanNamespace == <<"swan">>

LogLevels == {"info", "debug"}
LogLevelSection == <<"swan", "logLevel">>
ConfigSections == {LogLevelSection, <<"swan", "enableAutoComplete">>,
                   <<"editor", "fontSize">>}

\* what the welcome notification can resolve with
Selections == {undefined, Str(<<OpenDocsChoice>>), Str(<<CreateProjectChoice>>)}

NoUri == [scheme |-> "", authority |-> "", path |-> ""]

\* vscode.Uri.parse of "scheme://authority": an empty path of an https URI
\* is normalised to "/"
UriParse(s) ==
  IF Len(s) >= 3 /\ s[2] = "://"
  THEN [scheme |-> s[1], authority |-> s[3],
        path |-> IF Len(s) >= 4 THEN s[4] ELSE "/"]
  ELSE [scheme |-> "file", authority |-> "", path |-> "/"]

\* one call of a host capability
Call(api, text) == [api |-> api, text |-> text, items |-> <<>>, uri |-> NoUri]
CallItems(api, text, items) == [api |-> api, text |-> text, items |-> items, uri |-> NoUri]
CallUri(api, uri) == [api |-> api, text |-> <<>>, items |-> <<>>, uri |-> uri]

RECURSIVE CountApi(_, _)
CountApi(cs, api) ==
  IF cs = <<>> THEN 0
  ELSE (IF Head(cs).api = api THEN 1 ELSE 0) + CountApi(Tail(cs), api)

RECURSIVE Repeat(_, _)
Repeat(cs, n) == IF n = 0 THEN <<>> ELSE cs \o Repeat(cs, n - 1)

----------------------------------------------------------------------------
(* Host capabilities *)

EmptyGlobalState == [k \in {} |-> FALSE]

\* faulty variant: the stored value is never consulted
GlobalStateGetDefault(gs, key, defaultValue) == defaultValue

\* context.globalState.get(key, defaultValue)
GlobalStateGet(gs, key, defaultValue) ==
  IF key \in DOMAIN gs THEN gs[key] ELSE defaultValue

\* faulty variant: writing a key that is present flips its value
GlobalStateUpdateFlip(gs, key, value) ==
  [k \in (DOMAIN gs) \cup {key} |->
     IF k = key THEN (IF key \in DOMAIN gs THEN ~gs[key] ELSE value) ELSE gs[k]]

\* faulty variant: the value is stored under another key
GlobalStateUpdateOtherKey(gs, key, value) ==
  [k \in (DOMAIN gs) \cup {"hasShownWelcome"} |->
     IF k = "hasShownWelcome" THEN value ELSE gs[k]]

\* context.globalState.update(key, value)
GlobalStateUpdate(gs, key, value) ==
  [k \in (DOMAIN gs) \cup {key} |-> IF k = key THEN value ELSE gs[k]]

\* vscode.commands.registerCommand(id, handler)
registerCommand(cmds, id) == [cmds EXCEPT ![id] = @ + 1]

\* event.affectsConfiguration(namespace): the changed section lies in it
affectsConfiguration(section, namespace) ==
  /\ Len(namespace) <= Len(section)
  /\ SubSeq(section, 1, Len(namespace)) = namespace

CommandHandle(id) == [kind |-> "command", id |-> id]
StatusBarHandle == [kind |-> "statusBarItem", id |-> ""]

RECURSIVE CountHandle(_, _)
CountHandle(subs, h) ==
  IF subs = <<>> THEN 0
  ELSE (IF Head(subs) = h THEN 1 ELSE 0) + CountHandle(Tail(subs), h)

Minus(a, b) == IF a >= b THEN a - b ELSE 0

\* the host disposes every entry of context.subscriptions: the command
\* registrations among them leave the registry
DisposeCommands(cmds, subs) ==
  [id \in DOMAIN cmds |-> Minus(cmds[id], CountHandle(subs, CommandHandle(id)))]

\* ... and the status-bar items among them leave the status bar
DisposeStatusBarItems(items, subs) ==
  LET n == CountHandle(subs, StatusBarHandle)
  IN IF n >= Len(items) THEN <<>> ELSE SubSeq(items, n + 1, Len(items))

IsWelcome(c) == c.api = "showInformationMessage" /\ c.items # <<>>

RECURSIVE CountWelcome(_)
CountWelcome(cs) ==
  IF cs = <<>> THEN 0
  ELSE (IF IsWelcome(Head(cs)) THEN 1 ELSE 0) + CountWelcome(Tail(cs))

\* the input boxes opened by a sequence of calls
NewInputBoxes(cs, via) == [i \in 1..CountApi(cs, "showInputBox") |-> [via |-> via]]

\* faulty variant: one terminal is shared by all invocations
RECURSIVE ApplyTerminalCallsShared(_, _)
ApplyTerminalCallsShared(cs, terms) ==
  IF cs = <<>> THEN terms
  ELSE LET c == Head(cs)
           n == Len(terms)
       IN ApplyTerminalCallsShared(Tail(cs),
            IF c.api = "createTerminal" /\ n = 0
            THEN Append(terms, [name |-> c.text, sent |-> <<>>, visible |-> FALSE])
            ELSE IF c.api = "sendText" /\ n > 0
            THEN [terms EXCEPT ![n].sent = Append(@, c.text)]
            ELSE IF c.api = "terminal.show" /\ n > 0
            THEN [terms EXCEPT ![n].visible = TRUE]
            ELSE terms)

\* the effect of a sequence of calls on the host's terminals: createTerminal
\* opens one, sendText and show act on the one the handler just created
RECURSIVE ApplyTerminalCalls(_, _)
ApplyTerminalCalls(cs, terms) ==
  IF cs = <<>> THEN terms
  ELSE LET c == Head(cs)
           n == Len(terms)
       IN ApplyTerminalCalls(Tail(cs),
            IF c.api = "createTerminal"
            THEN Append(terms, [name |-> c.text, sent |-> <<>>, visible |-> FALSE])
            ELSE IF c.api = "sendText" /\ n > 0
            THEN [terms EXCEPT ![n].sent = Append(@, c.text)]
            ELSE IF c.api = "terminal.show" /\ n > 0
            THEN [terms EXCEPT ![n].visible = TRUE]
            ELSE terms)

----------------------------------------------------------------------------
(* The handlers of extension.ts, as the host calls they make *)

\* faulty variant: the greeting is shown twice
helloWorldCommandTwice ==
  <<Call("showInformationMessage", Greeting), Call("showInformationMessage", Greeting)>>

helloWorldCommand == <<Call("showInformationMessage", Greeting)>>

\* faulty variant: the documentation is opened twice
openDocsCommandTwice ==
  <<CallUri("openExternal", UriParse(DocsUrl)), CallUri("openExternal", UriParse(DocsUrl))>>

openDocsCommand == <<CallUri("openExternal", UriParse(DocsUrl))>>

\* createProject up to its await: the input box is shown
createProjectCommand == <<CallItems("showInputBox", InputPrompt, InputPlaceHolder)>>

\* faulty variant: the placeholder is interpolated instead of the name
createProjectResumePlaceHolder(projectName) ==
  IF Truthy(projectName)
  THEN << Call("createTerminal", TerminalName),
          Call("sendText", ScaffoldPrefix \o InputPlaceHolder),
          Call("terminal.show", <<>>),
          Call("showInformationMessage", ConfirmPrefix \o InputPlaceHolder) >>
  ELSE <<>>

\* faulty variant: the terminal is revealed before the text is sent
createProjectResumeShowFirst(projectName) ==
  IF Truthy(projectName)
  THEN << Call("createTerminal", TerminalName),
          Call("terminal.show", <<>>),
          Call("sendText", ScaffoldPrefix \o projectName.str),
          Call("showInformationMessage", ConfirmPrefix \o projectName.str) >>
  ELSE <<>>

\* faulty variant: projectName !== undefined instead of truthiness
createProjectResumeDefined(projectName) ==
  IF projectName.defined
  THEN << Call("createTerminal", TerminalName),
          Call("sendText", ScaffoldPrefix \o projectName.str),
          Call("terminal.show", <<>>),
          Call("showInformationMessage", ConfirmPrefix \o projectName.str) >>
  ELSE <<>>

\* createProject after its await, projectName being what the box resolved with
createProjectResume(projectName) ==
  IF Truthy(projectName)
  THEN << Call("createTerminal", TerminalName),
          Call("sendText", ScaffoldPrefix \o projectName.str),
          Call("terminal.show", <<>>),
          Call("showInformationMessage", ConfirmPrefix \o projectName.str) >>
  ELSE <<>>

Handler(id) ==
  IF id = HelloWorldId THEN helloWorldCommand
  ELSE IF id = OpenDocsId THEN openDocsCommand
  ELSE createProjectCommand

\* vscode.commands.executeCommand(id): runs the handler of a registered
\* command; for an unknown command the returned promise rejects
executeCommand(cmds, id) ==
  <<Call("executeCommand", <<id>>)>> \o (IF cmds[id] > 0 THEN Handler(id) ELSE <<>>)

\* faulty variant: "Create Project" runs the greeting command
welcomeThenGreeting(cmds, selection) ==
  IF selection = Str(<<OpenDocsChoice>>) THEN executeCommand(cmds, OpenDocsId)
  ELSE IF selection = Str(<<CreateProjectChoice>>) THEN executeCommand(cmds, HelloWorldId)
  ELSE <<>>

\* faulty variant: a dismissed notification opens the documentation
welcomeThenDefaultDocs(cmds, selection) ==
  IF selection = Str(<<CreateProjectChoice>>) THEN executeCommand(cmds, CreateProjectId)
  ELSE executeCommand(cmds, OpenDocsId)

\* faulty variant: the two choices run each other's command
welcomeThenSwapped(cmds, selection) ==
  IF selection = Str(<<OpenDocsChoice>>) THEN executeCommand(cmds, CreateProjectId)
  ELSE IF selection = Str(<<CreateProjectChoice>>) THEN executeCommand(cmds, OpenDocsId)
  ELSE <<>>

\* the .then callback of the welcome notification
welcomeThen(cmds, selection) ==
  IF selection = Str(<<OpenDocsChoice>>) THEN executeCommand(cmds, OpenDocsId)
  ELSE IF selection = Str(<<CreateProjectChoice>>) THEN executeCommand(cmds, CreateProjectId)
  ELSE <<>>

\* faulty variant: the namespace of the change is not checked
configListenerAnyChange(section, level) ==
  <<Call("console.log", LogLevelPrefix \o <<level>>)>>

\* the onDidChangeConfiguration listener; level is config.get("logLevel")
configListener(section, level) ==
  IF affectsConfiguration(section, SwanNamespace)
  THEN <<Call("console.log", LogLevelPrefix \o <<level>>)>>
  ELSE <<>>

\* faulty variant: statusBarItem.show() is missing
statusBarItemHidden ==
  [alignment |-> "Right", priority |-> StatusBarPriority, text |-> StatusBarText,
   tooltip |-> StatusBarTooltip, command |-> HelloWorldId, visible |-> FALSE]

\* the status-bar item as activate sets it up
statusBarItem ==
  [alignment |-> "Right", priority |-> StatusBarPriority, text |-> StatusBarText,
   tooltip |-> StatusBarTooltip, command |-> HelloWorldId, visible |-> TRUE]

\* faulty variant: the create-project command is not pushed
PushedWithoutCreateProject ==
  << CommandHandle(HelloWorldId), CommandHandle(OpenDocsId), StatusBarHandle >>

\* faulty variant: the greeting command is pushed twice
PushedHelloWorldTwice ==
  << CommandHandle(HelloWorldId), CommandHandle(HelloWorldId), CommandHandle(OpenDocsId),
     CommandHandle(CreateProjectId), StatusBarHandle >>

\* faulty variant: the status-bar item is not pushed
PushedWithoutStatusBar ==
  << CommandHandle(HelloWorldId), CommandHandle(OpenDocsId), CommandHandle(CreateProjectId) >>

\* context.subscriptions.push(...)
Pushed == << CommandHandle(HelloWorldId), CommandHandle(OpenDocsId),
             CommandHandle(CreateProjectId), StatusBarHandle >>

\* the calls of activate before the welcome step
activateCalls ==
  << Call("console.log", ActivatedLine),
     Call("registerCommand", <<HelloWorldId>>),
     Call("registerCommand", <<OpenDocsId>>),
     Call("registerCommand", <<CreateProjectId>>),
     Call("createStatusBarItem", <<>>),
     Call("statusBarItem.show", <<>>),
     Call("subscriptions.push", <<>>),
     Call("onDidChangeConfiguration", <<>>),
     Call("globalState.get", <<WelcomeKey>>) >>

\* faulty variant: the flag is not written
WelcomeStepNoUpdate(gs) ==
  LET hasShownWelcome == GlobalStateGet(gs, WelcomeKey, FALSE)
  IN IF ~hasShownWelcome
     THEN [calls |-> << CallItems("showInformationMessage", WelcomeMessage, WelcomeChoices) >>,
           globalState |-> gs]
     ELSE [calls |-> <<>>, globalState |-> gs]

\* faulty variant: the update is outside the if and writes !hasShownWelcome
WelcomeStepToggle(gs) ==
  LET hasShownWelcome == GlobalStateGet(gs, WelcomeKey, FALSE)
  IN [calls |-> IF ~hasShownWelcome
                THEN << CallItems("showInformationMessage", WelcomeMessage, WelcomeChoices),
                        Call("globalState.update", <<WelcomeKey>>) >>
                ELSE << Call("globalState.update", <<WelcomeKey>>) >>,
      globalState |-> GlobalStateUpdate(gs, WelcomeKey, ~hasShownWelcome)]

\* the welcome step of activate: its calls and the memento it leaves
WelcomeStep(gs) ==
  LET hasShownWelcome == GlobalStateGet(gs, WelcomeKey, FALSE)
  IN IF ~hasShownWelcome
     THEN [calls |-> << CallItems("showInformationMessage", WelcomeMessage, WelcomeChoices),
                        Call("globalState.update", <<WelcomeKey>>) >>,
           globalState |-> GlobalStateUpdate(gs, WelcomeKey, TRUE)]
     ELSE [calls |-> <<>>, globalState |-> gs]

\* faulty variant: deactivate also tells the user
deactivateNotifies ==
  <<Call("console.log", DeactivatedLine), Call("showInformationMessage", DeactivatedLine)>>

\* deactivate()
deactivate == <<Call("console.log", DeactivatedLine)>>

----------------------------------------------------------------------------
(* State machine *)

Init ==
  /\ active = FALSE
  /\ globalState \in {EmptyGlobalState, [k \in {WelcomeKey} |-> FALSE]}
  /\ commands = [id \in CommandIds |-> 0]
  /\ statusBarItems = <<>>
  /\ subscriptions = <<>>
  /\ configListeners = 0
  /\ logLevel = "info"
  /\ welcomePending = 0
  /\ inputBoxes = <<>>
  /\ terminals = <<>>
  /\ calls = <<>>
  /\ op = [name |-> "init", arg |-> undefined, via |-> "host"]
  /\ activations = 0
  /\ activationFailed = FALSE
  /\ welcomeShown = 0

\* the host activates the extension: activate(context)
Activate ==
  /\ ~active
  /\ ~activationFailed
  /\ activations < MaxActivations
  /\ LET w == WelcomeStep(globalState)
     IN /\ calls' = activateCalls \o w.calls
        /\ globalState' = w.globalState
  /\ welcomePending' = welcomePending + CountWelcome(calls')
  /\ welcomeShown' = welcomeShown + CountWelcome(calls')
  /\ commands' = registerCommand(registerCommand(registerCommand(commands,
                    HelloWorldId), OpenDocsId), CreateProjectId)
  /\ statusBarItems' = Append(statusBarItems, statusBarItem)
  /\ subscriptions' = subscriptions \o Pushed
  /\ configListeners' = configListeners + 1
  /\ active' = TRUE
  /\ activations' = activations + 1
  /\ op' = [name |-> "activate", arg |-> undefined, via |-> "host"]
  /\ UNCHANGED <<logLevel, inputBoxes, terminals, activationFailed>>

\* the host deactivates the extension: deactivate(), then the host disposes
\* the entries of context.subscriptions
Deactivate ==
  /\ active
  /\ calls' = deactivate
  /\ commands' = DisposeCommands(commands, subscriptions)
  /\ statusBarItems' = DisposeStatusBarItems(statusBarItems, subscriptions)
  /\ subscriptions' = <<>>
  /\ active' = FALSE
  /\ op' = [name |-> "deactivate", arg |-> undefined, via |-> "host"]
  /\ UNCHANGED <<globalState, configListeners, logLevel, welcomePending,
                 inputBoxes, terminals, activations, activationFailed,
                 welcomeShown>>

\* faulty variant: a command waits until no input box is open
InvokeCommandBlocking(id, name, via) ==
  /\ commands[id] > 0
  /\ inputBoxes = <<>>
  /\ calls' = Handler(id)
  /\ inputBoxes' = inputBoxes \o NewInputBoxes(calls', via)
  /\ Len(inputBoxes') <= MaxPending
  /\ terminals' = ApplyTerminalCalls(calls', terminals)
  /\ op' = [name |-> name, arg |-> undefined, via |-> via]
  /\ UNCHANGED <<active, globalState, commands, statusBarItems, subscriptions,
                 configListeners, logLevel, welcomePending, activations,
                 activationFailed, welcomeShown>>

\* the host runs the handler of a registered command
InvokeCommand(id, name, via) ==
  /\ commands[id] > 0
  /\ calls' = Handler(id)
  /\ inputBoxes' = inputBoxes \o NewInputBoxes(calls', via)
  /\ Len(inputBoxes') <= MaxPending
  /\ terminals' = ApplyTerminalCalls(calls', terminals)
  /\ op' = [name |-> name, arg |-> undefined, via |-> via]
  /\ UNCHANGED <<active, globalState, commands, statusBarItems, subscriptions,
                 configListeners, logLevel, welcomePending, activations,
                 activationFailed, welcomeShown>>

\* the user runs "Swan: Hello World" from the command palette
HelloWorld == InvokeCommand(HelloWorldId, "helloWorld", "palette")

\* the user runs "Swan: Open Documentation"
OpenDocs == InvokeCommand(OpenDocsId, "openDocs", "palette")

\* the user runs "Swan: Create New Swan Project"
CreateProject == InvokeCommand(CreateProjectId, "createProject", "palette")

\* the user clicks a visible status-bar item: the host runs its command
StatusBarClick ==
  \E i \in 1..Len(statusBarItems) :
    /\ statusBarItems[i].visible
    /\ InvokeCommand(statusBarItems[i].command, "helloWorld", "statusBar")

\* a pending input box resolves with value and createProject resumes
ResolveInputBox ==
  \E i \in 1..Len(inputBoxes) : \E value \in InputValues :
    /\ calls' = createProjectResume(value)
    /\ terminals' = ApplyTerminalCalls(calls', terminals)
    /\ Len(terminals') <= MaxTerminals
    /\ inputBoxes' = SubSeq(inputBoxes, 1, i - 1) \o SubSeq(inputBoxes, i + 1, Len(inputBoxes))
    /\ op' = [name |-> "resolveInputBox", arg |-> value, via |-> inputBoxes[i].via]
    /\ UNCHANGED <<active, globalState, commands, statusBarItems, subscriptions,
                   configListeners, logLevel, welcomePending, activations,
                   activationFailed, welcomeShown>>

\* a pending welcome notification resolves with selection and its .then
\* callback runs
ResolveWelcome ==
  \E selection \in Selections :
    /\ welcomePending > 0
    /\ calls' = welcomeThen(commands, selection)
    /\ welcomePending' = welcomePending - 1
    /\ inputBoxes' = inputBoxes \o NewInputBoxes(calls', "welcome")
    /\ Len(inputBoxes') <= MaxPending
    /\ terminals' = ApplyTerminalCalls(calls', terminals)
    /\ op' = [name |-> "resolveWelcome", arg |-> selection, via |-> "user"]
    /\ UNCHANGED <<active, globalState, commands, statusBarItems, subscriptions,
                   configListeners, logLevel, activations, activationFailed,
                   welcomeShown>>

\* the host changes a setting and fires onDidChangeConfiguration: every live
\* listener runs
ConfigChange ==
  \E section \in ConfigSections : \E level \in LogLevels :
    /\ IF section = LogLevelSection THEN level # logLevel ELSE level = logLevel
    /\ logLevel' = level
    /\ calls' = Repeat(configListener(section, logLevel'), configListeners)
    /\ op' = [name |-> "configChange", arg |-> Str(section), via |-> "host"]
    /\ UNCHANGED <<active, globalState, commands, statusBarItems, subscriptions,
                   configListeners, welcomePending, inputBoxes, terminals,
                   activations, activationFailed, welcomeShown>>

Next ==
  \/ Activate
  \/ Deactivate
  \/ HelloWorld
  \/ OpenDocs
  \/ CreateProject
  \/ StatusBarClick
  \/ ResolveInputBox
  \/ ResolveWelcome
  \/ ConfigChange

Spec == Init /\ [][Next]_vars

----------------------------------------------------------------------------
(* Host capabilities that throw *)

\* every call of one activate(), in program order
activateAllCalls(gs) == activateCalls \o WelcomeStep(gs).calls

\* faulty variant: every statement of activate is in its own try/catch
PerformedAllOthers(full, k) == SubSeq(full, 1, k - 1) \o SubSeq(full, k + 1, Len(full))

\* activate has no try/catch: when its k-th call throws, the calls that have
\* taken effect are the ones before it
Performed(full, k) == SubSeq(full, 1, k - 1)

\* the calls of activate that reach a host capability of section 6 of the
\* specification; console.log is not one
CanThrow(c) == c.api # "console.log"

RECURSIVE CountRegistered(_, _)
CountRegistered(cs, id) ==
  IF cs = <<>> THEN 0
  ELSE (IF Head(cs).api = "registerCommand" /\ Head(cs).text = <<id>> THEN 1 ELSE 0)
       + CountRegistered(Tail(cs), id)

\* the host activates the extension and the k-th host call of activate
\* throws: the exception leaves activate, the activation has failed and the
\* host does not activate the extension again
ActivateThrows ==
  /\ ~active
  /\ ~activationFailed
  /\ activations < MaxActivations
  /\ \E k \in 1..Len(activateAllCalls(globalState)) :
       LET full == activateAllCalls(globalState)
           done == Performed(full, k)
       IN /\ CanThrow(full[k])
          /\ calls' = SubSeq(full, 1, k)
          /\ commands' = [id \in DOMAIN commands |-> commands[id] + CountRegistered(done, id)]
          /\ statusBarItems' =
               IF CountApi(done, "createStatusBarItem") > 0
               THEN Append(statusBarItems,
                      [statusBarItem EXCEPT !.visible = CountApi(done, "statusBarItem.show") > 0])
               ELSE statusBarItems
          /\ subscriptions' =
               IF CountApi(done, "subscriptions.push") > 0
               THEN subscriptions \o Pushed ELSE subscriptions
          /\ configListeners' = configListeners + CountApi(done, "onDidChangeConfiguration")
          /\ welcomePending' = welcomePending + CountWelcome(done)
          /\ welcomeShown' = welcomeShown + CountWelcome(done)
          /\ globalState' =
               IF CountApi(done, "globalState.update") > 0
               THEN WelcomeStep(globalState).globalState ELSE globalState
          /\ op' = [name |-> "activateThrows", arg |-> Str(<<full[k].api>> \o full[k].text),
                    via |-> "host"]
  /\ active' = FALSE
  /\ activationFailed' = TRUE
  /\ activations' = activations + 1
  /\ UNCHANGED <<logLevel, inputBoxes, terminals>>

\* faulty variant: the handler catches the exception and runs its body again
createProjectThrowsRetry(projectName, k) ==
  LET full == createProjectResume(projectName)
  IN [calls |-> SubSeq(full, 1, k) \o full, done |-> full]

\* the handler of swan.createProject has no try/catch: when the k-th host
\* call after the input box throws, the handler's promise rejects there;
\* calls are the host calls made, done the ones that have taken effect
createProjectThrows(projectName, k) ==
  LET full == createProjectResume(projectName)
  IN [calls |-> SubSeq(full, 1, k), done |-> Performed(full, k)]

\* the host calls of the handler whose failure is followed: the first and
\* the last one after the input box; a failure of sendText or of show, which
\* leaves a terminal that is set up in part, is not followed
createProjectCanThrow(c) == c.api \in {"createTerminal", "showInformationMessage"}

\* a pending input box resolves with a name and the k-th host call of the
\* rest of the handler throws
ResolveInputBoxThrows ==
  \E i \in 1..Len(inputBoxes) : \E value \in InputValues :
    \E k \in 1..Len(createProjectResume(value)) :
      LET r == createProjectThrows(value, k)
      IN /\ createProjectCanThrow(createProjectResume(value)[k])
         /\ calls' = r.calls
         /\ terminals' = ApplyTerminalCalls(r.done, terminals)
         /\ Len(terminals') <= MaxTerminals
         /\ inputBoxes' =
              SubSeq(inputBoxes, 1, i - 1) \o SubSeq(inputBoxes, i + 1, Len(inputBoxes))
         /\ op' = [name |-> "resolveInputBoxThrows", arg |-> value,
                   via |-> inputBoxes[i].via,
                   threw |-> createProjectResume(value)[k].api]
         /\ UNCHANGED <<active, globalState, commands, statusBarItems, subscriptions,
                        configListeners, logLevel, welcomePending, activations,
                        activationFailed, welcomeShown>>

NextFail ==
  \/ Next
  \/ ActivateThrows
  \/ ResolveInputBoxThrows

SpecFail == Init /\ [][NextFail]_vars

----------------------------------------------------------------------------
(* Properties *)

\* the value activate reads for the persistent flag
hasShownWelcome == GlobalStateGet(globalState, WelcomeKey, FALSE)

\* the host state other than the pending prompts and the terminals
HostUnchanged ==
  UNCHANGED <<active, globalState, commands, statusBarItems, subscriptions,
              configListeners, logLevel, welcomePending>>

DocsUri(u) == u.scheme = "https" /\ u.authority = "your-swan-docs-url.com"

\* the step created one terminal, sent it one text containing name and
\* revealed it
OneTerminalFor(name) ==
  /\ CountApi(calls', "createTerminal") = 1
  /\ CountApi(calls', "sendText") = 1
  /\ CountApi(calls', "terminal.show") = 1
  /\ Len(terminals') = Len(terminals) + 1
  /\ SubSeq(terminals', 1, Len(terminals)) = terminals
  /\ LET t == terminals'[Len(terminals')]
     IN /\ Len(t.sent) = 1
        /\ Contains(t.sent[1], name)
        /\ t.visible

\* C1: starting from a fresh installation, the welcome notification is shown
\* by the first activate and by no later one; in total it is shown once.
C1_WelcomeOnce ==
  [][ /\ op'.name = "activate" =>
           CountWelcome(calls') = (IF activations = 0 THEN 1 ELSE 0)
      /\ welcomeShown' = (IF activations' = 0 THEN 0 ELSE 1) ]_vars

C1_Witness ==
  /\ op.name = "activate"
  /\ activations >= 2
  /\ welcomeShown = 1

\* C2: once the persistent flag is true, no step makes it false or absent.
C2_FlagMonotonic == [][hasShownWelcome => hasShownWelcome']_vars

C2_Witness ==
  /\ hasShownWelcome
  /\ op.name = "activate"
  /\ activations >= 2

\* C3: a createProject whose input box resolves with a non-empty name
\* creates exactly one terminal, sends it exactly one text containing the
\* name, reveals it and shows exactly one confirmation notification.
C3_CreateProjectNamed ==
  [][ op'.name = "resolveInputBox" /\ Truthy(op'.arg) =>
        /\ OneTerminalFor(op'.arg.str)
        /\ CountApi(calls', "showInformationMessage") = 1
        /\ \A i \in 1..Len(calls') :
             calls'[i].api = "showInformationMessage" =>
               /\ calls'[i].items = <<>>
               /\ Contains(calls'[i].text, ConfirmPrefix)
               /\ Contains(calls'[i].text, op'.arg.str) ]_vars

C3_Witness ==
  /\ op.name = "resolveInputBox"
  /\ op.arg = Str(<<"a">>)
  /\ Len(terminals) = 2

\* C4: a createProject whose input box is cancelled or resolves with the
\* empty string makes no host call after the prompt and changes nothing but
\* the pending prompt itself.
C4_CreateProjectCancelled ==
  [][ /\ op'.name = "createProject" =>
           /\ calls' = <<CallItems("showInputBox", InputPrompt, InputPlaceHolder)>>
           /\ terminals' = terminals
           /\ HostUnchanged
      /\ op'.name = "resolveInputBox" /\ ~Truthy(op'.arg) =>
           /\ calls' = <<>>
           /\ terminals' = terminals
           /\ Len(inputBoxes') = Len(inputBoxes) - 1
           /\ HostUnchanged ]_vars

C4_Witness ==
  /\ op.name = "resolveInputBox"
  /\ op.arg = Str(<<>>)
  /\ calls = <<>>

\* C5: every run of the greeting command shows exactly one notification,
\* with the greeting text, and does nothing else.
C5_HelloWorld ==
  [][ op'.name = "helloWorld" =>
        /\ Len(calls') = 1
        /\ calls'[1].api = "showInformationMessage"
        /\ calls'[1].text = <<"Hello World from Swan!">>
        /\ calls'[1].items = <<>>
        /\ terminals' = terminals
        /\ inputBoxes' = inputBoxes
        /\ HostUnchanged ]_vars

C5_Witness ==
  /\ op.name = "helloWorld"
  /\ op.via = "palette"
  /\ hasShownWelcome
  /\ terminals # <<>>

\* C6: every run of the docs command requests exactly one external open, of
\* the documentation URL.
C6_OpenDocs ==
  [][ /\ op'.name = "openDocs" =>
           /\ Len(calls') = 1
           /\ calls'[1].api = "openExternal"
      /\ ( /\ op'.name = "resolveWelcome"
           /\ op'.arg = Str(<<OpenDocsChoice>>)
           /\ commands[OpenDocsId] > 0 ) =>
           CountApi(calls', "openExternal") = 1
      /\ \A i \in 1..Len(calls') :
           calls'[i].api = "openExternal" => DocsUri(calls'[i].uri) ]_vars

C6_Witness ==
  /\ op.name = "openDocs"
  /\ active
  /\ CountApi(calls, "openExternal") = 1

\* C7: while Active, a configuration change inside the swan namespace
\* produces exactly one trace line, and the line carries the current log
\* level.
C7_OneTraceLine ==
  [][ ( /\ op'.name = "configChange"
        /\ affectsConfiguration(op'.arg.str, SwanNamespace)
        /\ active ) =>
        /\ CountApi(calls', "console.log") = 1
        /\ \A i \in 1..Len(calls') : Contains(calls'[i].text, <<logLevel'>>) ]_vars

\* C8: a configuration change outside the swan namespace produces no trace
\* line and changes no state.
C8_ForeignConfigChange ==
  [][ ( /\ op'.name = "configChange"
        /\ ~affectsConfiguration(op'.arg.str, SwanNamespace) ) =>
        /\ calls' = <<>>
        /\ terminals' = terminals
        /\ inputBoxes' = inputBoxes
        /\ HostUnchanged ]_vars

C8_Witness ==
  /\ op.name = "configChange"
  /\ op.arg = Str(<<"editor", "fontSize">>)
  /\ configListeners >= 2
  /\ active

\* C9: on a fresh installation activate shows the welcome notification with
\* the choices "Open Docs" and "Create Project" and sets the flag; choosing
\* "Create Project" while Active opens the input box; entering "demo" there
\* creates a terminal that is sent a text containing "demo", the flag being
\* true.
C9_EndToEnd ==
  [][ /\ op'.name = "activate" /\ activations = 0 =>
           /\ CountWelcome(calls') = 1
           /\ \A i \in 1..Len(calls') :
                IsWelcome(calls'[i]) => calls'[i].items = <<"Open Docs", "Create Project">>
           /\ hasShownWelcome'
      /\ ( /\ op'.name = "resolveWelcome"
           /\ op'.arg = Str(<<"Create Project">>)
           /\ active ) =>
           /\ CountApi(calls', "showInputBox") = 1
           /\ inputBoxes' = Append(inputBoxes, [via |-> "welcome"])
           /\ terminals' = terminals
      /\ ( /\ op'.name = "resolveInputBox"
           /\ op'.via = "welcome"
           /\ op'.arg = Str(Demo) ) =>
           /\ OneTerminalFor(Demo)
           /\ hasShownWelcome' ]_vars

C9_Witness ==
  /\ op.name = "resolveInputBox"
  /\ op.via = "welcome"
  /\ op.arg = Str(Demo)
  /\ active
  /\ activations = 1
  /\ hasShownWelcome
  /\ Len(terminals) = 1
  /\ Contains(terminals[1].sent[1], Demo)

\* C10: a second or later activate shows no welcome notification and leaves
\* the three commands registered, so that executing each runs its handler.
C10_SecondActivate ==
  [][ op'.name = "activate" /\ activations >= 1 =>
        /\ CountWelcome(calls') = 0
        /\ welcomePending' = welcomePending
        /\ welcomeShown' = welcomeShown
        /\ \A id \in {"swan.helloWorld", "swan.openDocs", "swan.createProject"} :
             /\ commands'[id] >= 1
             /\ executeCommand(commands', id) =
                  <<Call("executeCommand", <<id>>)>> \o Handler(id) ]_vars

C10_Witness ==
  /\ op.name = "activate"
  /\ activations = 2
  /\ welcomePending = 0
  /\ \A id \in CommandIds : commands[id] >= 1

\* C11: every command id has at most one live registration, and it has one
\* exactly while the extension is Active.
C11_RegisteredWhileActive ==
  \A id \in {"swan.helloWorld", "swan.openDocs", "swan.createProject"} :
    /\ commands[id] <= 1
    /\ commands[id] = 1 <=> active

C11_Witness ==
  /\ ~active
  /\ activations >= 2
  /\ op.name = "deactivate"
  /\ \A id \in CommandIds : commands[id] = 0

\* C12: after deactivation nothing that activate registered with the host is
\* live: no command registration, no status-bar item, no configuration
\* listener.
C12_NothingLiveAfterDeactivate ==
  op.name = "deactivate" =>
    /\ \A id \in CommandIds : commands[id] = 0
    /\ statusBarItems = <<>>
    /\ configListeners = 0

\* C13: when activate returns, the disposal list holds the handle of each of
\* the three commands and of the status-bar item exactly once.
C13_DisposalList ==
  op.name = "activate" =>
    /\ \A id \in {"swan.helloWorld", "swan.openDocs", "swan.createProject"} :
         CountHandle(subscriptions, CommandHandle(id)) = 1
    /\ CountHandle(subscriptions, StatusBarHandle) = 1
    /\ Len(subscriptions) = 4

C13_Witness ==
  /\ op.name = "activate"
  /\ activations = 3
  /\ Len(subscriptions) = 4

\* the commands a sequence of calls executes programmatically
RECURSIVE Executed(_)
Executed(cs) ==
  IF cs = <<>> THEN <<>>
  ELSE (IF Head(cs).api = "executeCommand" THEN <<Head(cs).text[1]>> ELSE <<>>)
       \o Executed(Tail(cs))

\* C14 as stated: the welcome callback executes only the greeting command
\* (step 1) or the create-project command (step 3).
C14_GreetingOrCreateProject ==
  [][ op'.name = "resolveWelcome" =>
        \A i \in 1..Len(Executed(calls')) :
          Executed(calls')[i] \in {"swan.helloWorld", "swan.createProject"} ]_vars

\* C14 amended: the welcome callback executes the docs command (step 2) for
\* "Open Docs", the create-project command (step 3) for "Create Project",
\* and no command otherwise.
C14_DocsOrCreateProject ==
  [][ op'.name = "resolveWelcome" =>
        Executed(calls') =
          (IF op'.arg = Str(<<"Open Docs">>) THEN <<"swan.openDocs">>
           ELSE IF op'.arg = Str(<<"Create Project">>) THEN <<"swan.createProject">>
           ELSE <<>>) ]_vars

C14_Witness ==
  /\ op.name = "resolveWelcome"
  /\ op.arg = Str(<<"Open Docs">>)
  /\ Executed(calls) = <<"swan.openDocs">>

\* C15: an activate that reads the flag as false has written it true when it
\* returns, the welcome notification still being unanswered; whatever the
\* notification resolves with later, the flag stays true.
C15_FlagSetRegardless ==
  [][ /\ op'.name = "activate" /\ ~hasShownWelcome =>
           /\ hasShownWelcome'
           /\ CountApi(calls', "globalState.update") = 1
           /\ welcomePending' = welcomePending + 1
      /\ welcomePending' > 0 => hasShownWelcome'
      /\ op'.name = "resolveWelcome" => hasShownWelcome' ]_vars

C15_Witness ==
  /\ op.name = "resolveWelcome"
  /\ op.arg = undefined
  /\ hasShownWelcome
  /\ activations = 1

\* C17: while Active exactly one status-bar item exists; it is visible and
\* right-aligned, and the command it is bound to is registered, so that
\* running it shows the greeting.
C17_StatusBarWhileActive ==
  active =>
    /\ Len(statusBarItems) = 1
    /\ statusBarItems[1].visible
    /\ statusBarItems[1].alignment = "Right"
    /\ statusBarItems[1].command = "swan.helloWorld"
    /\ commands[statusBarItems[1].command] >= 1
    /\ Handler(statusBarItems[1].command) =
         <<Call("showInformationMessage", <<"Hello World from Swan!">>)>>

C17_Witness ==
  /\ active
  /\ op.name = "helloWorld"
  /\ op.via = "statusBar"
  /\ activations >= 2

\* C18: at most one status-bar item is live at any time, and between its
\* creation by activate and its disposal no step changes any of its fields.
C18_StatusBarSingleton ==
  [][ /\ Len(statusBarItems') <= 1
      /\ \A i \in 1..Len(statusBarItems') :
           /\ statusBarItems'[i].text = <<"$(rocket) Swan">>
           /\ statusBarItems'[i].tooltip = <<"Swan Development Tools">>
           /\ statusBarItems'[i].command = "swan.helloWorld"
           /\ statusBarItems'[i].alignment = "Right"
           /\ statusBarItems'[i].priority = 100
      /\ op'.name \notin {"activate", "deactivate"} =>
           statusBarItems' = statusBarItems ]_vars

C18_Witness ==
  /\ Len(statusBarItems) = 1
  /\ op.name = "configChange"
  /\ activations >= 2
  /\ inputBoxes # <<>>

\* C19: every createProject invocation opens its own input box, whatever is
\* already pending; every answer closes one box, and creates one terminal,
\* sent the scaffold command of the name given in that answer, exactly when
\* the name is non-empty.  Hence terminals and non-empty answers are equal in
\* number.
C19_IndependentInvocations ==
  [][ /\ op'.name = "createProject" =>
           inputBoxes' = Append(inputBoxes, [via |-> op'.via])
      /\ op'.name = "resolveInputBox" =>
           /\ Len(inputBoxes') = Len(inputBoxes) - 1
           /\ terminals' =
                (IF Truthy(op'.arg)
                 THEN Append(terminals,
                        [name |-> <<"Swan Project Setup">>,
                         sent |-> << <<"pnpm create swan-app ">> \o op'.arg.str >>,
                         visible |-> TRUE])
                 ELSE terminals)
      /\ op'.name # "resolveInputBox" => terminals' = terminals ]_vars

C19_Witness ==
  /\ op.name = "resolveInputBox"
  /\ Len(inputBoxes) = 1
  /\ Len(terminals) = 2
  /\ terminals[1].sent # terminals[2].sent

\* C20: activate returns with the welcome notification unanswered, and while
\* a welcome notification or an input box is pending the commands and the
\* configuration-change event can still run.
C20_PromptsDoNotBlock ==
  /\ (op.name = "activate" /\ CountWelcome(calls) > 0) => (active /\ welcomePending > 0)
  /\ (active /\ (welcomePending > 0 \/ inputBoxes # <<>>)) =>
       /\ ENABLED HelloWorld
       /\ ENABLED OpenDocs
       /\ ENABLED ConfigChange
       /\ Len(inputBoxes) < MaxPending => ENABLED CreateProject

C20_Witness ==
  /\ op.name = "openDocs"
  /\ welcomePending > 0
  /\ inputBoxes # <<>>

\* the step shows the effect of the call at position i of a whole activate
EffectOf(full, i) ==
  LET c == full[i]
  IN IF c.api = "registerCommand" THEN commands'[c.text[1]] = commands[c.text[1]] + 1
     ELSE IF c.api = "createStatusBarItem" THEN Len(statusBarItems') = Len(statusBarItems) + 1
     ELSE IF c.api = "statusBarItem.show"
       THEN statusBarItems' # <<>> /\ statusBarItems'[Len(statusBarItems')].visible
     ELSE IF c.api = "subscriptions.push" THEN Len(subscriptions') = Len(subscriptions) + 4
     ELSE IF c.api = "onDidChangeConfiguration" THEN configListeners' = configListeners + 1
     ELSE IF IsWelcome(c) THEN welcomePending' = welcomePending + 1
     ELSE IF c.api = "globalState.update" THEN hasShownWelcome' /\ ~hasShownWelcome
     ELSE TRUE

HasEffect(c) == c.api \notin {"console.log", "globalState.get"}

Apis(cs) == [i \in 1..Len(cs) |-> cs[i].api]

\* C22: deactivate makes one call, a console.log of one line; it leaves the
\* flag, the prompts, the terminals and the configuration listeners alone,
\* and what leaves the command registry and the status bar in that step is
\* what the host's disposal list names, no more.
C22_DeactivateOnlyLogs ==
  [][ op'.name = "deactivate" =>
        /\ Apis(calls') = <<"console.log">>
        /\ calls'[1].text = <<"Swan VS Code Extension is now deactivated">>
        /\ UNCHANGED <<globalState, configListeners, logLevel, welcomePending,
                       inputBoxes, terminals, welcomeShown>>
        /\ \A id \in CommandIds :
             commands[id] = commands'[id] + CountHandle(subscriptions, CommandHandle(id))
        /\ Len(statusBarItems) =
             Len(statusBarItems') + CountHandle(subscriptions, StatusBarHandle) ]_vars

C22_Witness ==
  /\ op.name = "deactivate"
  /\ Apis(calls) = <<"console.log">>
  /\ configListeners = 1
  /\ inputBoxes # <<>>
  /\ hasShownWelcome

\* C23: a createProject that got a non-empty name creates the terminal, sends
\* the text, reveals the terminal and shows the confirmation, in this order,
\* and no terminal is created in a step other than the one in which an input
\* box resolves.
C23_CreateProjectOrder ==
  [][ /\ (op'.name = "resolveInputBox" /\ Truthy(op'.arg)) =>
           Apis(calls') =
             <<"createTerminal", "sendText", "terminal.show", "showInformationMessage">>
      /\ op'.name # "resolveInputBox" =>
           /\ CountApi(calls', "createTerminal") = 0
           /\ CountApi(calls', "sendText") = 0 ]_vars

C23_Witness ==
  /\ op.name = "resolveInputBox"
  /\ op.via = "palette"
  /\ op.arg = Str(Demo)
  /\ Len(calls) = 4
  /\ calls[2].text = <<"pnpm create swan-app ", "d", "e", "m", "o">>

\* C24: a dismissed welcome notification leads to no call at all: no
\* command, external open, input box, terminal or notification; the flag is
\* true afterwards.
C24_WelcomeDismissed ==
  [][ (op'.name = "resolveWelcome" /\ op'.arg = undefined) =>
        /\ calls' = <<>>
        /\ inputBoxes' = inputBoxes
        /\ terminals' = terminals
        /\ welcomePending' = welcomePending - 1
        /\ hasShownWelcome'
        /\ UNCHANGED <<active, globalState, commands, statusBarItems,
                       subscriptions, configListeners, logLevel>> ]_vars

C24_Witness ==
  /\ op.name = "resolveWelcome"
  /\ op.arg = undefined
  /\ calls = <<>>
  /\ welcomePending = 0
  /\ active
  /\ hasShownWelcome

\* C25: when createTerminal throws after a non-empty name was entered, the
\* invocation ends there: createTerminal has been called once, sendText and
\* the confirmation notification not at all, no terminal exists that did not
\* exist before, and the flag and the command registrations are as they were.
C25_CreateTerminalFailure ==
  [][ ( /\ op'.name = "resolveInputBoxThrows"
        /\ op'.threw = "createTerminal" ) =>
        /\ Truthy(op'.arg)
        /\ CountApi(calls', "createTerminal") = 1
        /\ CountApi(calls', "sendText") = 0
        /\ CountApi(calls', "terminal.show") = 0
        /\ CountApi(calls', "showInformationMessage") = 0
        /\ terminals' = terminals
        /\ Len(inputBoxes') = Len(inputBoxes) - 1
        /\ UNCHANGED <<active, globalState, commands, statusBarItems, subscriptions>> ]_vars

C25_Witness ==
  /\ op.name = "resolveInputBoxThrows"
  /\ op.arg = Str(Demo)
  /\ op.threw = "createTerminal"
  /\ Apis(calls) = <<"createTerminal">>
  /\ terminals = <<>>
  /\ active
  /\ hasShownWelcome

\* C26: choosing "Open Docs" in the welcome notification runs the handler of
\* swan.openDocs once, so that one external open of the documentation URL is
\* requested and no notification, input box or terminal comes up; choosing
\* "Create Project" runs the handler of swan.createProject once, which opens
\* one input box, and requests no external open.
C26_WelcomeChoiceRunsCommand ==
  [][ /\ (op'.name = "resolveWelcome" /\ op'.arg = Str(<<OpenDocsChoice>>)) =>
           /\ Executed(calls') = <<OpenDocsId>>
           /\ CountApi(calls', "openExternal") = 1
           /\ \A i \in 1..Len(calls') : calls'[i].api = "openExternal" => DocsUri(calls'[i].uri)
           /\ CountApi(calls', "showInformationMessage") = 0
           /\ CountApi(calls', "showInputBox") = 0
           /\ UNCHANGED <<inputBoxes, terminals>>
      /\ (op'.name = "resolveWelcome" /\ op'.arg = Str(<<CreateProjectChoice>>)) =>
           /\ Executed(calls') = <<CreateProjectId>>
           /\ CountApi(calls', "showInputBox") = 1
           /\ Len(inputBoxes') = Len(inputBoxes) + 1
           /\ CountApi(calls', "openExternal") = 0 ]_vars

\* C27: when the callback of the welcome notification executes a command,
\* the command is registered at that moment.
C27_WelcomeCommandRegistered ==
  [][ op'.name = "resolveWelcome" =>
        \A i \in 1..Len(Executed(calls')) : commands[Executed(calls')[i]] >= 1 ]_vars

\* C28: a terminal is created, and a confirmation notification shown, only
\* while the extension is active.
C28_TerminalsOnlyWhileActive ==
  [][ ( \/ Len(terminals') > Len(terminals)
        \/ \E i \in 1..Len(calls') :
             /\ calls'[i].api = "showInformationMessage"
             /\ Contains(calls'[i].text, ConfirmPrefix) ) => active ]_vars

====
